---- MODULE Spec2Model ----
(***************************************************************************)
(* WSIMC: the rolling chart-data cache (services/dataCache.ts) and the     *)
(* realtime monitor that feeds it (App_new.tsx, RealtimeMonitor).          *)
(*                                                                         *)
(* JavaScript arrays are mutable objects handed around by reference, so    *)
(* the model keeps a heap of arrays: `heap` maps a reference to the        *)
(* array's current contents, and the cache, the return value of a call     *)
(* and the React state of the monitor all hold references.                 *)
(***************************************************************************)
EXTENDS Integers, Sequences, FiniteSets, TLC

VARIABLES
    now,        \* Date.now(), milliseconds
    cache,      \* DataCache.cache : Map<string, CachedData>
    heap,       \* reference -> contents of every array still referenced
    ret,        \* the array most recently returned to a caller (0: none yet)
    seq,        \* per key, the number of addChartData calls made so far
    last,       \* the operation that produced this state, and what it saw
    \* RealtimeMonitor (App_new.tsx)
    mounted,        \* the component is mounted and its interval is running
    inst,           \* number of component instances mounted so far
    stats,          \* useState: stats
    extendedStats,  \* useState: extendedStats
    isLoading,      \* useState: isLoading
    chartData,      \* useState: chartData, a reference to an array
    polls,          \* fetchRealtimeStats calls waiting at `await Promise.all`
    pollCount,      \* fetchRealtimeStats calls started so far
    logged,         \* number of console.error calls
    \* ProcessPage (App.tsx)
    pageMounted,    \* the process page is shown and its interval is running
    processes,      \* useState: processes
    procLoading,    \* useState: isLoading
    sortBy,         \* useState: sortBy
    sortOrder,      \* useState: sortOrder
    searchTerm,     \* useState: searchTerm
    pageFetches,    \* fetchProcesses calls of the page waiting at `await`
    \* the CPU reading behind get_real_time_stats
    per_core_usage, \* the usage of each logical core, in percent
    cpu_percent,    \* the aggregate usage reported
    \* App and RealtimeMonitor of App_backup.tsx
    appRunning,          \* the window is open
    activeTab,           \* useState: activeTab
    isDarkMode,          \* useState: isDarkMode
    darkClass,           \* the document element carries the class 'dark'
    darkModeItem,        \* localStorage item 'darkMode'
    themeAtClose,        \* the theme in effect when the window last closed
    backupInst,          \* RealtimeMonitor instances mounted so far
    backupStats,         \* useState: stats
    backupExtendedStats, \* useState: extendedStats
    backupLoading,       \* useState: isLoading
    backupChartData,     \* useState: chartData
    backupPolls,         \* fetchRealtimeStats calls waiting at the await
    backupPollCount,     \* fetchRealtimeStats calls started so far
    \* the module services/dataCache.ts
    instance,       \* static DataCache.instance
    dataCache,      \* export const dataCache
    constructed,    \* DataCache objects constructed so far
    got,            \* what the latest getInstance() call returned
    \* formatUptime and ProgressBar
    seconds,        \* the argument of the latest formatUptime call
    uptime,         \* the days, hours and minutes it put into its text
    barValue,       \* the value prop of the latest ProgressBar render
    barMax,         \* its max prop
    percentage,     \* the width percentage it computed
    \* ProcessWindow
    winOpen,        \* the isOpen prop
    winProcesses,   \* useState: processes
    winLoading,     \* useState: isLoading
    winSortBy,      \* useState: sortBy
    winFetches,     \* fetchProcesses calls of the window waiting at `await`
    winRequests     \* get_top_processes requests the window has started

cacheVars == <<now, cache, heap, ret, seq, last>>
monitorVars == <<mounted, inst, stats, extendedStats, isLoading, chartData,
                 polls, pollCount, logged>>
pageVars == <<pageMounted, processes, procLoading, sortBy, sortOrder,
              searchTerm, pageFetches>>
\* the state of the views other than the realtime monitor
cpuVars == <<per_core_usage, cpu_percent>>
backupVars == <<appRunning, activeTab, isDarkMode, darkClass, darkModeItem,
                themeAtClose, backupInst, backupStats, backupExtendedStats,
                backupLoading, backupChartData, backupPolls,
                backupPollCount>>
instanceVars == <<instance, dataCache, constructed, got>>
displayVars == <<seconds, uptime, barValue, barMax, percentage>>
windowVars == <<winOpen, winProcesses, winLoading, winSortBy, winFetches,
                winRequests>>
moreVars == <<instanceVars, displayVars, windowVars>>
appVars == <<pageVars, cpuVars, backupVars, moreVars>>
vars == <<cacheVars, monitorVars, appVars>>

----------------------------------------------------------------------------
(* Program constants                                                       *)

MAX_CHART_POINTS == 50
CACHE_DURATION == 30 * 60 * 1000

(* Bounds of the model                                                     *)

\* addChartData calls per key in Spec
MaxAdds == 3
\* addChartData calls on the filled key in SpecFill
MaxFill == 52
\* the clock stops at MaxSpan * CACHE_DURATION in Spec
MaxSpan == 2
\* the clock stops at MaxFillSpan * CACHE_DURATION in SpecFill
MaxFillSpan == 1
\* fetchRealtimeStats calls in SpecMonitor
MaxPolls == 2
\* fetchRealtimeStats calls waiting for their answers at one time
MaxInFlight == 2
\* while the view is unmounted the clock advances by at most
\* MaxIdle * CACHE_DURATION
MaxIdle == 1
\* times the monitor view is mounted in SpecMonitor
MaxMounts == 2

Keys == {"", "realtime"}
\* clearCache() called without an argument
Undefined == "<undefined>"
\* localStorage.getItem of a key that was never set
NoItem == "<null>"
\* steps by which the clock advances between two calls
Deltas == {CACHE_DURATION - 1, CACHE_DURATION}

NoRef == 0

\* setInterval(fetchRealtimeStats, 3000)
POLL_INTERVAL == 3000
\* usage percentages the queries may report
RawUsage == {40, 137}
\* usage percentages get_real_time_stats may report
BasicUsage == {40}

----------------------------------------------------------------------------
(* Date.prototype.toISOString: the UTC calendar fields of an instant given *)
(* in milliseconds, most significant first.  The day number stands for     *)
(* the YYYY-MM-DD part.                                                    *)

toISOString(ms) ==
    << ms \div 86400000,
       (ms % 86400000) \div 3600000,
       (ms % 3600000) \div 60000,
       (ms % 60000) \div 1000,
       ms % 1000 >>

\* The point the n-th addChartData call on a key passes in; cpu carries n.
Sample(n) == [timestamp |-> toISOString(n), cpu |-> n, memory |-> 0]

----------------------------------------------------------------------------
(* Heap of arrays                                                          *)

\* a reference not yet in use (the lowest one)
NewRef(h) ==
    CHOOSE r \in 1..(Cardinality(DOMAIN h) + 1) :
        r \notin DOMAIN h /\ \A q \in 1..(r - 1) : q \in DOMAIN h

\* arrays no longer referenced by anybody are collected
Collect(h, roots) == [r \in (DOMAIN h) \cap roots |-> h[r]]

\* the references held by the cache entries
CacheRefs(c) == {c[k].chartData : k \in DOMAIN c}

\* slice that trims nothing
slice_keepAll(s, start) == s

\* slice that keeps the first -start elements instead of the last
slice_first(s, start) ==
    SubSeq(s, 1, IF Len(s) < 0 - start THEN Len(s) ELSE 0 - start)

\* Array.prototype.slice(start) for start < 0: the last -start elements
slice(s, start) ==
    LET from == IF Len(s) + start < 0 THEN 0 ELSE Len(s) + start
    IN  SubSeq(s, from + 1, Len(s))

----------------------------------------------------------------------------
(* class DataCache                                                         *)

\* a validity window twice as long
isValidCache_twice(lastUpdate) == now - lastUpdate < 2 * CACHE_DURATION

\* a window that still counts the 30th minute itself
isValidCache_inclusive(lastUpdate) == now - lastUpdate <= CACHE_DURATION

isValidCache(lastUpdate) == now - lastUpdate < CACHE_DURATION

\* an entry counts as usable whatever its age
hit_noExpiry(key) == key \in DOMAIN cache

\* const cached = this.cache.get(key); cached && this.isValidCache(...)
hit(key) == key \in DOMAIN cache /\ isValidCache(cache[key].lastUpdate)

\* push into a copy that is then thrown away: the array itself is untouched
push_dropped(h, r, x) == h

\* unshift instead of push
push_front(h, r, x) == [h EXCEPT ![r] = <<x>> \o @]

\* Array.prototype.push: changes the array in place
push(h, r, x) == [h EXCEPT ![r] = Append(@, x)]

\* a map rebuilt with the one entry
set_only(c, key, value) == (key :> value)

\* Map.prototype.set
set(c, key, value) ==
    [k \in (DOMAIN c) \cup {key} |-> IF k = key THEN value ELSE c[k]]

\* Map.prototype.delete
delete(c, key) == [k \in (DOMAIN c) \ {key} |-> c[k]]

\* addChartData that stamps an entry only when it creates the key
addChartData_keepStamp(key, dataPoint) ==
    LET fresh == NewRef(heap)
        r1 == IF hit(key) THEN cache[key].chartData ELSE fresh
        h0 == IF hit(key) THEN heap ELSE heap @@ (fresh :> << >>)
        h1 == push(h0, r1, dataPoint)
        over == Len(h1[r1]) > MAX_CHART_POINTS
        r2 == IF over THEN NewRef(h1) ELSE r1
        h2 == IF over
              THEN h1 @@ (r2 :> slice(h1[r1], 0 - MAX_CHART_POINTS))
              ELSE h1
        stamp == IF key \in DOMAIN cache THEN cache[key].lastUpdate ELSE now
    IN  [cache |-> set(cache, key, [chartData |-> r2, lastUpdate |-> stamp]),
         heap  |-> h2,
         ret   |-> r2]

\* addChartData(key, dataPoint): the new map, the new heap and the
\* reference it returns
addChartData(key, dataPoint) ==
    LET fresh == NewRef(heap)
        \* let chartData = []; if (cached && valid) chartData = cached.chartData
        r1 == IF hit(key) THEN cache[key].chartData ELSE fresh
        h0 == IF hit(key) THEN heap ELSE heap @@ (fresh :> << >>)
        \* chartData.push(dataPoint)
        h1 == push(h0, r1, dataPoint)
        \* if (chartData.length > MAX) chartData = chartData.slice(-MAX)
        over == Len(h1[r1]) > MAX_CHART_POINTS
        r2 == IF over THEN NewRef(h1) ELSE r1
        h2 == IF over
              THEN h1 @@ (r2 :> slice(h1[r1], 0 - MAX_CHART_POINTS))
              ELSE h1
    IN  [cache |-> set(cache, key, [chartData |-> r2, lastUpdate |-> now]),
         heap  |-> h2,
         ret   |-> r2]

\* getChartData that hands out an entry without looking at its age
getChartData_noCheck(key) ==
    IF key \in DOMAIN cache
    THEN [heap |-> heap, ret |-> cache[key].chartData]
    ELSE LET fresh == NewRef(heap)
         IN  [heap |-> heap @@ (fresh :> << >>), ret |-> fresh]

\* getChartData(key): the heap and the reference it returns
getChartData(key) ==
    IF hit(key)
    THEN [heap |-> heap, ret |-> cache[key].chartData]
    ELSE LET fresh == NewRef(heap)
         IN  [heap |-> heap @@ (fresh :> << >>), ret |-> fresh]

\* clearCache(key?): `if (key)` is false for undefined and for ""
clearCache(key) ==
    IF key # Undefined /\ key # ""
    THEN delete(cache, key)
    ELSE << >>

\* getCacheStats().cacheSize
cacheSize == Cardinality(DOMAIN cache)

----------------------------------------------------------------------------
(* Results of the backend queries                                          *)

\* Date.parse of a timestamp written as calendar fields: the instant in ms
DateParse(f) ==
    f[1] * 86400000 + f[2] * 3600000 + f[3] * 60000 + f[4] * 1000 + f[5]

\* no value: useState(null), or an invoke still pending
Null == [st |-> "null", cpu_usage |-> 0, memory_usage |-> 0,
         timestamp |-> toISOString(0)]
Pending == [Null EXCEPT !.st = "pending"]

\* get_real_time_stats
BasicResults ==
    {[st |-> "ok", cpu_usage |-> c, memory_usage |-> c,
      timestamp |-> toISOString(0)] : c \in BasicUsage}

\* get_extended_realtime_stats: the sample is stamped when it is captured
ExtendedResults ==
    {[st |-> "ok", cpu_usage |-> c, memory_usage |-> c,
      timestamp |-> toISOString(now)] : c \in RawUsage}

----------------------------------------------------------------------------
(* Numbers that need not be whole: a quotient is kept exactly, as a        *)
(* fraction in lowest terms.                                               *)

RECURSIVE gcd(_, _)
gcd(a, b) == IF b = 0 THEN a ELSE gcd(b, a % b)

\* the number n / d, for d > 0
Number(n, d) ==
    [type |-> "number", num |-> n \div gcd(n, d), den |-> d \div gcd(n, d)]

\* a property that holds no value
undefined == [type |-> "undefined"]

RECURSIVE sum(_)
\* the elements of a sequence of whole numbers added up, from 0
sum(s) == IF s = << >> THEN 0 ELSE Head(s) + sum(Tail(s))

----------------------------------------------------------------------------
(* Calls made by a client of the cache                                     *)

\* DataCache.instance before the first getInstance(): no object
NoInstance == 0

\* a getInstance that constructs a DataCache at every call
getInstance_anew ==
    [instance |-> constructed + 1, constructed |-> constructed + 1]

\* static getInstance(): the object returned, which is DataCache.instance
\* from then on, and the number of objects constructed by then.  Objects
\* are numbered in the order of their construction.
getInstance ==
    IF instance = NoInstance
    THEN [instance |-> constructed + 1, constructed |-> constructed + 1]
    ELSE [instance |-> instance, constructed |-> constructed]

\* every view before it is shown, around an empty cache
InitViews ==
    /\ now = 0
    /\ cache = << >>
    /\ heap = << >>
    /\ ret = NoRef
    /\ seq = [k \in Keys |-> 0]
    /\ last = [op |-> "init", key |-> Undefined, had |-> FALSE, age |-> 0,
               len |-> 0]
    /\ mounted = FALSE
    /\ inst = 0
    /\ stats = Null
    /\ extendedStats = Null
    /\ isLoading = FALSE
    /\ chartData = NoRef
    /\ polls = << >>
    /\ pollCount = 0
    /\ logged = 0
    /\ pageMounted = FALSE
    /\ processes = << >>
    /\ procLoading = TRUE
    /\ sortBy = "cpu"
    /\ sortOrder = "desc"
    /\ searchTerm = << >>
    /\ pageFetches = 0
    /\ per_core_usage = << >>
    /\ cpu_percent = Number(0, 1)
    /\ appRunning = FALSE
    /\ activeTab = "monitor"
    /\ isDarkMode = TRUE
    /\ darkClass = FALSE
    /\ darkModeItem = NoItem
    /\ themeAtClose = "none"
    /\ backupInst = 0
    /\ backupStats = Null
    /\ backupExtendedStats = Null
    /\ backupLoading = FALSE
    /\ backupChartData = << >>
    /\ backupPolls = << >>
    /\ backupPollCount = 0
    /\ seconds = 0
    /\ uptime = [days |-> 0, hours |-> 0, minutes |-> 0]
    /\ barValue = 0
    /\ barMax = 100
    /\ percentage = Number(0, 1)
    /\ winOpen = FALSE
    /\ winProcesses = << >>
    /\ winLoading = FALSE
    /\ winSortBy = "cpu"
    /\ winFetches = 0
    /\ winRequests = 0

\* the module services/dataCache.ts has been evaluated: its last statement
\* has called getInstance(), which constructed the one DataCache
Init ==
    /\ InitViews
    /\ instance = 1
    /\ dataCache = 1
    /\ constructed = 1
    /\ got = NoInstance

\* the process before the module services/dataCache.ts is evaluated
InitClass ==
    /\ InitViews
    /\ instance = NoInstance
    /\ dataCache = NoInstance
    /\ constructed = 0
    /\ got = NoInstance

\* what a call on `key` sees before it runs
Seen(op, key) ==
    [op  |-> op,
     key |-> key,
     had |-> key \in DOMAIN cache,
     age |-> IF key \in DOMAIN cache THEN now - cache[key].lastUpdate ELSE 0,
     len |-> IF key \in DOMAIN cache THEN Len(heap[cache[key].chartData])
             ELSE 0]

AddChartData(key) ==
    LET res == addChartData(key, Sample(seq[key] + 1))
    IN  /\ cache' = res.cache
        /\ ret' = res.ret
        /\ heap' = Collect(res.heap,
                            CacheRefs(res.cache) \cup {res.ret, chartData})
        /\ seq' = [seq EXCEPT ![key] = @ + 1]
        /\ last' = Seen("add", key)
        /\ UNCHANGED <<appVars, now, monitorVars>>

\* a read that drops the entry it finds expired
GetChartData_evict(key) ==
    LET res == getChartData(key)
    IN  /\ ret' = res.ret
        /\ cache' = IF key \in DOMAIN cache /\ ~hit(key)
                    THEN delete(cache, key) ELSE cache
        /\ heap' = Collect(res.heap,
                            CacheRefs(cache') \cup {res.ret, chartData})
        /\ last' = Seen("get", key)
        /\ UNCHANGED <<appVars, now, seq, monitorVars>>

GetChartData(key) ==
    LET res == getChartData(key)
    IN  /\ ret' = res.ret
        /\ heap' = Collect(res.heap,
                            CacheRefs(cache) \cup {res.ret, chartData})
        /\ last' = Seen("get", key)
        /\ UNCHANGED <<appVars, now, cache, seq, monitorVars>>

ClearCache(key) ==
    /\ cache' = clearCache(key)
    /\ heap' = Collect(heap, CacheRefs(cache') \cup {ret, chartData})
    /\ last' = Seen("clear", key)
    /\ UNCHANGED <<appVars, now, ret, seq, monitorVars>>

\* time passes between two calls
Tick(d) ==
    /\ now' = now + d
    /\ last' = Seen("tick", Undefined)
    /\ UNCHANGED <<appVars, cache, heap, ret, seq, monitorVars>>

Next ==
    \/ \E key \in Keys : seq[key] < MaxAdds /\ AddChartData(key)
    \/ \E key \in Keys : GetChartData(key)
    \/ \E key \in Keys \cup {Undefined} : ClearCache(key)
    \/ \E d \in Deltas : now + d <= MaxSpan * CACHE_DURATION /\ Tick(d)

Spec == Init /\ [][Next]_vars

\* one series filled past its capacity
NextFill ==
    \/ seq["realtime"] < MaxFill /\ AddChartData("realtime")
    \/ \E key \in Keys : GetChartData(key)
    \/ \E key \in Keys \cup {Undefined} : ClearCache(key)
    \/ \E d \in Deltas : now + d <= MaxFillSpan * CACHE_DURATION /\ Tick(d)

SpecFill == Init /\ [][NextFill]_vars

\* the last statement of the module: export const dataCache = ...
ModuleLoad ==
    /\ dataCache = NoInstance
    /\ dataCache' = getInstance.instance
    /\ instance' = getInstance.instance
    /\ constructed' = getInstance.constructed
    /\ UNCHANGED <<cacheVars, monitorVars, pageVars, cpuVars, backupVars,
                   displayVars, windowVars, got>>

\* any other call of DataCache.getInstance()
GetInstanceCall ==
    /\ got' = getInstance.instance
    /\ instance' = getInstance.instance
    /\ constructed' = getInstance.constructed
    /\ UNCHANGED <<cacheVars, monitorVars, pageVars, cpuVars, backupVars,
                   displayVars, windowVars, dataCache>>

\* the module is evaluated, and from then on the views call the cache
\* through dataCache
NextInstance ==
    \/ ModuleLoad
    \/ GetInstanceCall
    \/ /\ dataCache # NoInstance
       /\ \E key \in Keys : seq[key] < MaxAdds /\ AddChartData(key)
    \/ /\ dataCache # NoInstance
       /\ \E key \in Keys : GetChartData(key)
    \/ /\ dataCache # NoInstance
       /\ \E key \in Keys \cup {Undefined} : ClearCache(key)

SpecInstance == InitClass /\ [][NextInstance]_vars

----------------------------------------------------------------------------
(* RealtimeMonitor                                                         *)

\* fetchRealtimeStats up to `await Promise.all([invoke, invoke])`
startFetch(ps, owner) ==
    ps @@ ((pollCount + 1) :> [inst |-> owner, basic |-> Pending,
                               ext |-> Pending])

\* a poll whose component instance is still the mounted one
Live(id) == mounted /\ polls[id].inst = inst

\* the polls without poll id
dropPoll(id) == [i \in (DOMAIN polls) \ {id} |-> polls[i]]

\* const newDataPoint: ChartDataPoint = {...}
newDataPoint(extendedResult) ==
    [timestamp |-> toISOString(DateParse(extendedResult.timestamp)),
     cpu       |-> extendedResult.cpu_usage,
     memory    |-> extendedResult.memory_usage]

\* a mount that starts from an empty chart and never asks the cache
Mount_empty ==
    /\ ~mounted
    /\ LET fresh == NewRef(heap)
       IN  /\ chartData' = fresh
           /\ heap' = Collect(heap @@ (fresh :> << >>),
                              CacheRefs(cache) \cup {ret, fresh})
    /\ mounted' = TRUE
    /\ inst' = inst + 1
    /\ stats' = Null
    /\ extendedStats' = Null
    /\ isLoading' = TRUE
    /\ polls' = startFetch(polls, inst + 1)
    /\ pollCount' = pollCount + 1
    /\ last' = Seen("mount", "realtime")
    /\ UNCHANGED <<appVars, now, cache, ret, seq, logged>>

\* useEffect(() => {...}, []) when the component mounts
Mount ==
    /\ ~mounted
    /\ LET res == getChartData("realtime")
       IN  /\ chartData' = res.ret
           /\ heap' = Collect(res.heap, CacheRefs(cache) \cup {ret, res.ret})
    /\ mounted' = TRUE
    /\ inst' = inst + 1
    /\ stats' = Null
    /\ extendedStats' = Null
    /\ isLoading' = TRUE
    /\ polls' = startFetch(polls, inst + 1)
    /\ pollCount' = pollCount + 1
    /\ last' = Seen("mount", "realtime")
    /\ UNCHANGED <<appVars, now, cache, ret, seq, logged>>

\* the cleanup of the effect: clearInterval(interval); the state is dropped
Unmount ==
    /\ mounted
    /\ mounted' = FALSE
    /\ stats' = Null
    /\ extendedStats' = Null
    /\ isLoading' = FALSE
    /\ chartData' = NoRef
    /\ heap' = Collect(heap, CacheRefs(cache) \cup {ret})
    /\ last' = Seen("unmount", "realtime")
    /\ UNCHANGED <<appVars, now, cache, ret, seq, inst, polls, pollCount, logged>>

\* an interval that is never cleared keeps firing after the unmount
TimerFire_uncleared ==
    /\ inst > 0
    /\ now' = now + POLL_INTERVAL
    /\ isLoading' = mounted
    /\ polls' = startFetch(polls, inst)
    /\ pollCount' = pollCount + 1
    /\ last' = Seen("fetch", "realtime")
    /\ UNCHANGED <<appVars, cache, heap, ret, seq, mounted, inst, stats,
                   extendedStats, chartData, logged>>

\* the interval fires: fetchRealtimeStats starts
TimerFire ==
    /\ mounted
    /\ now' = now + POLL_INTERVAL
    /\ isLoading' = TRUE
    /\ polls' = startFetch(polls, inst)
    /\ pollCount' = pollCount + 1
    /\ last' = Seen("fetch", "realtime")
    /\ UNCHANGED <<appVars, cache, heap, ret, seq, mounted, inst, stats,
                   extendedStats, chartData, logged>>

\* the rest of the try block and the finally block, once both invokes
\* have resolved
fetchDone(id, basicResult, extendedResult) ==
    LET res == addChartData("realtime", newDataPoint(extendedResult))
        shown == IF Live(id) THEN res.ret ELSE chartData
    IN  /\ stats' = IF Live(id) THEN basicResult ELSE stats
        /\ extendedStats' = IF Live(id) THEN extendedResult ELSE extendedStats
        /\ cache' = res.cache
        /\ chartData' = shown
        /\ heap' = Collect(res.heap, CacheRefs(res.cache) \cup {ret, shown})
        /\ seq' = [seq EXCEPT !["realtime"] = @ + 1]
        /\ isLoading' = IF Live(id) THEN FALSE ELSE isLoading
        /\ polls' = dropPoll(id)
        /\ last' = Seen("done", "realtime")
        /\ UNCHANGED <<appVars, now, ret, mounted, inst, pollCount, logged>>

\* one invoke of poll id resolves; Promise.all resolves with the second
Resolve(id, which, result) ==
    /\ id \in DOMAIN polls
    /\ polls[id][which].st = "pending"
    /\ LET p == [polls[id] EXCEPT ![which] = result]
       IN  IF p.basic.st = "ok" /\ p.ext.st = "ok"
           THEN fetchDone(id, p.basic, p.ext)
           ELSE /\ polls' = [polls EXCEPT ![id] = p]
                /\ last' = Seen("resolve", "realtime")
                /\ UNCHANGED <<appVars, now, cache, heap, ret, seq, mounted, inst,
                               stats, extendedStats, isLoading, chartData,
                               pollCount, logged>>

\* a catch block that also blanks the displayed snapshot
Reject_clears(id) ==
    /\ id \in DOMAIN polls
    /\ logged' = logged + 1
    /\ isLoading' = IF Live(id) THEN FALSE ELSE isLoading
    /\ stats' = IF Live(id) THEN Null ELSE stats
    /\ extendedStats' = IF Live(id) THEN Null ELSE extendedStats
    /\ polls' = dropPoll(id)
    /\ last' = Seen("fail", "realtime")
    /\ UNCHANGED <<appVars, now, cache, heap, ret, seq, mounted, inst, chartData,
                   pollCount>>

\* one invoke of poll id rejects: Promise.all rejects at once, the catch
\* block logs and the finally block runs
Reject(id) ==
    /\ id \in DOMAIN polls
    /\ logged' = logged + 1
    /\ isLoading' = IF Live(id) THEN FALSE ELSE isLoading
    /\ polls' = dropPoll(id)
    /\ last' = Seen("fail", "realtime")
    /\ UNCHANGED <<appVars, now, cache, heap, ret, seq, mounted, inst, stats,
                   extendedStats, chartData, pollCount>>

\* fetchRealtimeStats calls waiting for their answers
InFlight == Cardinality(DOMAIN polls)

NextMonitor ==
    \/ /\ pollCount < MaxPolls
       /\ inst < MaxMounts
       /\ InFlight < MaxInFlight
       /\ Mount
    \/ Unmount
    \/ pollCount < MaxPolls /\ InFlight < MaxInFlight /\ TimerFire
    \/ \E id \in DOMAIN polls : \E r \in BasicResults : Resolve(id, "basic", r)
    \/ \E id \in DOMAIN polls : \E r \in ExtendedResults : Resolve(id, "ext", r)
    \/ \E id \in DOMAIN polls : Reject(id)
    \/ \E d \in Deltas :
         /\ ~mounted
         /\ now + d <= MaxIdle * CACHE_DURATION + MaxPolls * POLL_INTERVAL
         /\ Tick(d)

SpecMonitor == Init /\ [][NextMonitor]_vars

----------------------------------------------------------------------------
(* ProcessPage (App.tsx)                                                   *)
(*                                                                         *)
(* A string is the sequence of its character codes, so that case folding,  *)
(* substring search and collation are computed rather than assumed.        *)

\* processes a fetch may report at one time
MaxProcs == 3
\* fetchProcesses calls of the page waiting for their answers at one time
MaxPageInFlight == 1
\* console.error calls made by the page
MaxPageErrors == 1

\* "bash", "chrome", "Code"
Names == {<<98, 97, 115, 104>>, <<99, 104, 114, 111, 109, 101>>,
          <<67, 111, 100, 101>>}
Pids == {7, 50, 100}
\* what a process may be doing: the fields of ProcessInfo other than pid
Profiles ==
    {[name |-> <<99, 104, 114, 111, 109, 101>>, cpu_usage |-> 12,
      memory |-> 300, gpu_usage |-> 0],
     [name |-> <<67, 111, 100, 101>>, cpu_usage |-> 12,
      memory |-> 300, gpu_usage |-> 5],
     [name |-> <<98, 97, 115, 104>>, cpu_usage |-> 30,
      memory |-> 20, gpu_usage |-> 0]}
\* "", "Co", "5"
SearchTerms == {<< >>, <<67, 111>>, <<53>>}
Columns == {"cpu", "memory", "name", "gpu"}

ProcessInfo ==
    {[name |-> f.name, pid |-> pid, cpu_usage |-> f.cpu_usage,
      memory |-> f.memory, gpu_usage |-> f.gpu_usage] :
        f \in Profiles, pid \in Pids}

\* answers of get_top_processes: any processes, in any order, each pid once
ProcessLists ==
    UNION {{s \in [1..n -> ProcessInfo] :
              \A i, j \in 1..n : i # j => s[i].pid # s[j].pid} :
           n \in 0..MaxProcs}

\* String.prototype.toLowerCase, on ASCII
toLowerCase(s) ==
    [i \in 1..Len(s) |-> IF s[i] \in 65..90 THEN s[i] + 32 ELSE s[i]]

\* String.prototype.includes
includes(s, t) ==
    \E i \in 0..(Len(s) - Len(t)) : SubSeq(s, i + 1, i + Len(t)) = t

\* Number.prototype.toString of a non-negative integer
RECURSIVE toString(_)
toString(n) ==
    IF n < 10 THEN <<48 + n>>
    ELSE Append(toString(n \div 10), 48 + (n % 10))

sign(n) == IF n < 0 THEN 0 - 1 ELSE IF n > 0 THEN 1 ELSE 0

\* code-unit order of two strings, the shorter of two prefixes first
codeOrder(a, b) ==
    LET n == IF Len(a) < Len(b) THEN Len(a) ELSE Len(b)
        d == {i \in 1..n : a[i] # b[i]}
    IN  IF d = {} THEN sign(Len(a) - Len(b))
        ELSE LET i == CHOOSE i \in d : \A j \in d : i <= j
             IN  sign(a[i] - b[i])

\* String.prototype.localeCompare on names made of ASCII letters: the
\* letters decide, and between names that differ in case only the one with
\* the lower-case letter at the first difference comes first
localeCompare(a, b) ==
    IF codeOrder(toLowerCase(a), toLowerCase(b)) # 0
    THEN codeOrder(toLowerCase(a), toLowerCase(b))
    ELSE 0 - codeOrder(a, b)

\* the switch over sortBy in the callback given to sort
comparison(by, a, b) ==
    CASE by = "cpu" -> a.cpu_usage - b.cpu_usage
      [] by = "memory" -> a.memory - b.memory
      [] by = "gpu" -> a.gpu_usage - b.gpu_usage
      [] by = "name" -> localeCompare(a.name, b.name)
      [] OTHER -> 0

\* the callback given to sort
compareRows(by, order, a, b) ==
    IF order = "asc" THEN comparison(by, a, b) ELSE 0 - comparison(by, a, b)

\* Array.prototype.sort with the callback compareRows: stable, rows that
\* compare equal keep their order
sort(list, by, order) ==
    LET before(i) ==
            Cardinality({j \in 1..Len(list) :
                           \/ compareRows(by, order, list[j], list[i]) < 0
                           \/ /\ compareRows(by, order, list[j], list[i]) = 0
                              /\ j < i})
    IN  [r \in 1..Len(list) |->
           list[CHOOSE i \in 1..Len(list) : before(i) = r - 1]]

\* the callback given to filter
matches(process, term) ==
    \/ includes(toLowerCase(process.name), toLowerCase(term))
    \/ includes(toString(process.pid), term)

\* the rows of the table, as a function of the state they are computed from
rows(list, term, by, order) ==
    sort(SelectSeq(list, LAMBDA process : matches(process, term)), by, order)

filteredAndSortedProcesses == rows(processes, searchTerm, sortBy, sortOrder)

\* the page is shown: useState initial values, then the effect
PageMount ==
    /\ ~pageMounted
    /\ pageMounted' = TRUE
    /\ processes' = << >>
    /\ procLoading' = TRUE
    /\ sortBy' = "cpu"
    /\ sortOrder' = "desc"
    /\ searchTerm' = << >>
    /\ pageFetches' = 1
    /\ UNCHANGED <<moreVars, cacheVars, monitorVars, cpuVars, backupVars>>

\* the page is left: clearInterval(interval); the state is dropped, and a
\* fetch still waiting sets the state of a component that is gone
PageUnmount ==
    /\ pageMounted
    /\ pageMounted' = FALSE
    /\ processes' = << >>
    /\ procLoading' = TRUE
    /\ sortBy' = "cpu"
    /\ sortOrder' = "desc"
    /\ searchTerm' = << >>
    /\ pageFetches' = 0
    /\ UNCHANGED <<moreVars, cacheVars, monitorVars, cpuVars, backupVars>>

\* the interval fires: fetchProcesses runs up to its await
PageTimerFire ==
    /\ pageMounted
    /\ procLoading' = TRUE
    /\ pageFetches' = pageFetches + 1
    /\ UNCHANGED <<moreVars, cacheVars, monitorVars, cpuVars, backupVars, pageMounted, processes, sortBy,
                   sortOrder, searchTerm>>

\* invoke resolves: setProcesses(result), then the finally block
FetchProcessesDone(result) ==
    /\ pageMounted
    /\ pageFetches > 0
    /\ processes' = result
    /\ procLoading' = FALSE
    /\ pageFetches' = pageFetches - 1
    /\ UNCHANGED <<moreVars, cacheVars, monitorVars, cpuVars, backupVars, pageMounted, sortBy, sortOrder,
                   searchTerm>>

\* invoke rejects: the catch block logs, then the finally block
FetchProcessesFail ==
    /\ pageMounted
    /\ pageFetches > 0
    /\ logged' = logged + 1
    /\ procLoading' = FALSE
    /\ pageFetches' = pageFetches - 1
    /\ UNCHANGED <<moreVars, cacheVars, cpuVars, backupVars, mounted, inst, stats,
                   extendedStats, isLoading,
                   chartData, polls, pollCount, pageMounted, processes,
                   sortBy, sortOrder, searchTerm>>

\* a click that always flips the order, also when it selects another column
handleSort_flipAlways(column) ==
    /\ pageMounted
    /\ sortBy' = column
    /\ sortOrder' = IF sortOrder = "asc" THEN "desc" ELSE "asc"
    /\ UNCHANGED <<moreVars, cacheVars, monitorVars, cpuVars, backupVars, pageMounted,
                   processes, procLoading, searchTerm, pageFetches>>

\* a click on a column header
handleSort(column) ==
    /\ pageMounted
    /\ IF sortBy = column
       THEN /\ sortOrder' = IF sortOrder = "asc" THEN "desc" ELSE "asc"
            /\ sortBy' = sortBy
       ELSE /\ sortBy' = column
            /\ sortOrder' = "desc"
    /\ UNCHANGED <<moreVars, cacheVars, monitorVars, cpuVars, backupVars, pageMounted, processes,
                   procLoading, searchTerm, pageFetches>>

\* the search box changes: setSearchTerm(e.target.value)
SetSearchTerm(value) ==
    /\ pageMounted
    /\ searchTerm' = value
    /\ UNCHANGED <<moreVars, cacheVars, monitorVars, cpuVars, backupVars, pageMounted, processes,
                   procLoading, sortBy, sortOrder, pageFetches>>

NextProcess ==
    \/ PageMount
    \/ PageUnmount
    \/ pageFetches < MaxPageInFlight /\ PageTimerFire
    \/ \E result \in ProcessLists : FetchProcessesDone(result)
    \/ logged < MaxPageErrors /\ FetchProcessesFail
    \/ \E column \in Columns : handleSort(column)
    \/ \E value \in SearchTerms : value # searchTerm /\ SetSearchTerm(value)

SpecProcess == Init /\ [][NextProcess]_vars

----------------------------------------------------------------------------
(* The CPU reading of the backend: read_cpu() gives the usage of each      *)
(* logical core, and the usage reported is their average.                  *)

\* logical cores of the host
MaxCores == 4
\* usage percentages one core may report
CoreLoads == {0, 37, 100}

CoreReadings ==
    UNION {[1..n -> CoreLoads] : n \in 1..MaxCores}

\* the per-core values added up and reported as they are
aggregate_usage_summed(cores) == Number(sum(cores), 1)

\* the per-core values averaged across the logical core count
aggregate_usage(cores) == Number(sum(cores), Len(cores))

\* the CPU is sampled
ReadCpu(cores) ==
    /\ per_core_usage' = cores
    /\ cpu_percent' = aggregate_usage(cores)
    /\ UNCHANGED <<moreVars, cacheVars, monitorVars, pageVars, backupVars>>

NextCpu == \E cores \in CoreReadings : ReadCpu(cores)

SpecCpu == Init /\ [][NextCpu]_vars

----------------------------------------------------------------------------
(* The application of App_backup.tsx: the theme kept in localStorage, the  *)
(* tabs, and the RealtimeMonitor that keeps its chart history in its own   *)
(* state.                                                                  *)

\* setChartData keeps the last 20 points
BACKUP_HISTORY == 20
\* setInterval(fetchRealtimeStats, 3000)
BACKUP_POLL_INTERVAL == 3000

\* fetchRealtimeStats calls of the backup monitor
MaxBackupPolls == 3
\* fetchRealtimeStats calls of the backup monitor waiting at one time
MaxBackupInFlight == 2
\* console.error calls made by the backup monitor
MaxBackupErrors == 1
\* temperature sensors of the host
MaxSensors == 2

Tabs == {"monitor", "overview", "processes"}
\* readings one sensor may report, in degrees
SensorReadings == {40, 55}

\* the temperatures field of get_extended_realtime_stats: one component per
\* sensor, none when the host has no sensor
TemperatureLists ==
    UNION {[1..n -> [temperature : SensorReadings]] : n \in 0..MaxSensors}

\* get_extended_realtime_stats, as the backup monitor reads it
BackupExtendedResults ==
    {[st |-> "ok", cpu_usage |-> c, memory_usage |-> c,
      temperatures |-> t, timestamp |-> toISOString(now)] :
        c \in BasicUsage, t \in TemperatureLists}

\* JSON.stringify of a boolean
JSON_stringify(b) == IF b THEN "true" ELSE "false"

\* JSON.parse of the text of a boolean
JSON_parse(text) ==
    CASE text = "true" -> TRUE
      [] text = "false" -> FALSE

\* the truthiness of what getItem returned: null and '' are falsy
truthy(saved) == saved \notin {NoItem, ""}

\* `JSON.parse(saved) || true`: a saved light theme is taken for no theme
initialTheme_orDefault(saved) ==
    IF truthy(saved) THEN JSON_parse(saved) \/ TRUE ELSE TRUE

\* the initializer of useState: saved ? JSON.parse(saved) : true
initialTheme(saved) ==
    IF truthy(saved) THEN JSON_parse(saved) ELSE TRUE

\* a sensor list without readings is averaged as 0 degrees
avgTemp_zero(extendedResult) ==
    LET temperatures == extendedResult.temperatures
    IN  IF Len(temperatures) > 0
        THEN Number(sum([i \in 1..Len(temperatures) |->
                           temperatures[i].temperature]),
                    Len(temperatures))
        ELSE Number(0, 1)

\* const avgTemp = temperatures.length > 0 ? reduce(...) / length : undefined
avgTemp(extendedResult) ==
    LET temperatures == extendedResult.temperatures
    IN  IF Len(temperatures) > 0
        THEN Number(sum([i \in 1..Len(temperatures) |->
                           temperatures[i].temperature]),
                    Len(temperatures))
        ELSE undefined

\* const newDataPoint: ChartDataPoint = {...}
backupDataPoint(extendedResult) ==
    [timestamp   |-> toISOString(DateParse(extendedResult.timestamp)),
     cpu         |-> extendedResult.cpu_usage,
     memory      |-> extendedResult.memory_usage,
     temperature |-> avgTemp(extendedResult)]

\* a poll whose RealtimeMonitor instance is still the one shown
BackupLive(id) ==
    appRunning /\ activeTab = "monitor" /\ backupPolls[id] = backupInst

\* RealtimeMonitor mounts: useState initial values, then the effect calls
\* fetchRealtimeStats, which runs up to its await
BackupMount ==
    /\ backupInst' = backupInst + 1
    /\ backupStats' = Null
    /\ backupExtendedStats' = Null
    /\ backupLoading' = TRUE
    /\ backupChartData' = << >>
    /\ backupPolls' = backupPolls @@ ((backupPollCount + 1) :> (backupInst + 1))
    /\ backupPollCount' = backupPollCount + 1

\* RealtimeMonitor unmounts: clearInterval(interval), the state is dropped
BackupUnmount ==
    /\ backupStats' = Null
    /\ backupExtendedStats' = Null
    /\ backupLoading' = FALSE
    /\ backupChartData' = << >>
    /\ UNCHANGED <<backupInst, backupPolls, backupPollCount>>

\* the effect of App that follows every change of isDarkMode
themeEffect ==
    /\ darkModeItem' = JSON_stringify(isDarkMode')
    /\ darkClass' = isDarkMode'

\* the window opens: App renders for the first time, on the monitor tab
AppStart ==
    /\ ~appRunning
    /\ appRunning' = TRUE
    /\ activeTab' = "monitor"
    /\ isDarkMode' = initialTheme(darkModeItem)
    /\ themeEffect
    /\ BackupMount
    /\ UNCHANGED <<moreVars, cacheVars, monitorVars, pageVars, cpuVars, themeAtClose>>

\* the window closes: the page and everything that runs in it are gone,
\* localStorage stays
AppClose ==
    /\ appRunning
    /\ appRunning' = FALSE
    /\ themeAtClose' = IF isDarkMode THEN "dark" ELSE "light"
    /\ activeTab' = "monitor"
    /\ isDarkMode' = TRUE
    /\ darkClass' = FALSE
    /\ backupStats' = Null
    /\ backupExtendedStats' = Null
    /\ backupLoading' = FALSE
    /\ backupChartData' = << >>
    /\ backupPolls' = << >>
    /\ UNCHANGED <<moreVars, cacheVars, monitorVars, pageVars, cpuVars, darkModeItem,
                   backupInst, backupPollCount>>

\* a click on the theme button, and the effect that follows the render
toggleTheme ==
    /\ appRunning
    /\ isDarkMode' = ~isDarkMode
    /\ themeEffect
    /\ UNCHANGED <<moreVars, cacheVars, monitorVars, pageVars, cpuVars, appRunning,
                   activeTab, themeAtClose, backupInst, backupStats,
                   backupExtendedStats, backupLoading, backupChartData,
                   backupPolls, backupPollCount>>

\* a click on another tab
setActiveTab(tab) ==
    /\ appRunning
    /\ tab # activeTab
    /\ activeTab' = tab
    /\ IF tab = "monitor" THEN BackupMount
       ELSE IF activeTab = "monitor" THEN BackupUnmount
       ELSE UNCHANGED <<backupInst, backupStats, backupExtendedStats,
                        backupLoading, backupChartData, backupPolls,
                        backupPollCount>>
    /\ UNCHANGED <<moreVars, cacheVars, monitorVars, pageVars, cpuVars, appRunning,
                   isDarkMode, darkClass, darkModeItem, themeAtClose>>

\* the interval of the backup monitor fires
BackupTimerFire ==
    /\ appRunning
    /\ activeTab = "monitor"
    /\ now' = now + BACKUP_POLL_INTERVAL
    /\ backupLoading' = TRUE
    /\ backupPolls' = backupPolls @@ ((backupPollCount + 1) :> backupInst)
    /\ backupPollCount' = backupPollCount + 1
    /\ UNCHANGED <<moreVars, cache, heap, ret, seq, last, monitorVars,
                   pageVars,
                   cpuVars, appRunning, activeTab, isDarkMode, darkClass,
                   darkModeItem, themeAtClose, backupInst, backupStats,
                   backupExtendedStats, backupChartData>>

\* setChartData([...chartData, newDataPoint].slice(-20)) with the chartData
\* of the render that created the interval callback, which is the first
\* render: the history it builds on is always empty
BackupFetchDone_closure(id, basicResult, extendedResult) ==
    /\ id \in DOMAIN backupPolls
    /\ IF BackupLive(id)
       THEN /\ backupStats' = basicResult
            /\ backupExtendedStats' = extendedResult
            /\ backupChartData' =
                   slice(<<backupDataPoint(extendedResult)>>,
                         0 - BACKUP_HISTORY)
            /\ backupLoading' = FALSE
       ELSE UNCHANGED <<backupStats, backupExtendedStats, backupChartData,
                        backupLoading>>
    /\ backupPolls' = [i \in (DOMAIN backupPolls) \ {id} |-> backupPolls[i]]
    /\ UNCHANGED <<moreVars, cacheVars, monitorVars, pageVars, cpuVars, appRunning,
                   activeTab, isDarkMode, darkClass, darkModeItem,
                   themeAtClose, backupInst, backupPollCount>>

\* both invokes of poll id have resolved: the rest of the try block and the
\* finally block
BackupFetchDone(id, basicResult, extendedResult) ==
    /\ id \in DOMAIN backupPolls
    /\ IF BackupLive(id)
       THEN /\ backupStats' = basicResult
            /\ backupExtendedStats' = extendedResult
            /\ backupChartData' =
                   slice(Append(backupChartData,
                                backupDataPoint(extendedResult)),
                         0 - BACKUP_HISTORY)
            /\ backupLoading' = FALSE
       ELSE UNCHANGED <<backupStats, backupExtendedStats, backupChartData,
                        backupLoading>>
    /\ backupPolls' = [i \in (DOMAIN backupPolls) \ {id} |-> backupPolls[i]]
    /\ UNCHANGED <<moreVars, cacheVars, monitorVars, pageVars, cpuVars, appRunning,
                   activeTab, isDarkMode, darkClass, darkModeItem,
                   themeAtClose, backupInst, backupPollCount>>

\* an invoke of poll id rejects: the catch block logs, then the finally
\* block
BackupFetchFail(id) ==
    /\ id \in DOMAIN backupPolls
    /\ logged' = logged + 1
    /\ backupLoading' = IF BackupLive(id) THEN FALSE ELSE backupLoading
    /\ backupPolls' = [i \in (DOMAIN backupPolls) \ {id} |-> backupPolls[i]]
    /\ UNCHANGED <<moreVars, cacheVars, mounted, inst, stats, extendedStats, isLoading,
                   chartData, polls, pollCount, pageVars, cpuVars,
                   appRunning, activeTab, isDarkMode, darkClass,
                   darkModeItem, themeAtClose, backupInst, backupStats,
                   backupExtendedStats, backupChartData, backupPollCount>>

BackupInFlight == Cardinality(DOMAIN backupPolls)

NextBackup ==
    \/ backupPollCount < MaxBackupPolls /\ AppStart
    \/ AppClose
    \/ toggleTheme
    \/ \E tab \in Tabs :
         /\ tab = "monitor"
              => /\ backupPollCount < MaxBackupPolls
                 /\ BackupInFlight < MaxBackupInFlight
         /\ setActiveTab(tab)
    \/ /\ backupPollCount < MaxBackupPolls
       /\ BackupInFlight < MaxBackupInFlight
       /\ BackupTimerFire
    \/ \E id \in DOMAIN backupPolls :
         \E basicResult \in BasicResults :
           \E extendedResult \in BackupExtendedResults :
             BackupFetchDone(id, basicResult, extendedResult)
    \/ logged < MaxBackupErrors
         /\ \E id \in DOMAIN backupPolls : BackupFetchFail(id)

SpecBackup == Init /\ [][NextBackup]_vars

\* fetchRealtimeStats calls of the backup monitor in SpecBackupFill
MaxBackupFill == 22

\* the answer to poll id when the backend captures the sample as soon as
\* the request is made: poll id is made (id - 1) intervals after the start
PromptResult(id) ==
    [st |-> "ok", cpu_usage |-> 40, memory_usage |-> 40,
     temperatures |-> << >>,
     timestamp |-> toISOString((id - 1) * BACKUP_POLL_INTERVAL)]

\* the backup monitor left running until its history is full and beyond;
\* a poll may still be waiting when the next one starts, and is answered
\* before the one after that is due
NextBackupFill ==
    \/ backupPollCount = 0 /\ AppStart
    \/ /\ backupPollCount < MaxBackupFill
       /\ DOMAIN backupPolls \subseteq {backupPollCount}
       /\ BackupTimerFire
    \/ \E id \in DOMAIN backupPolls :
         \E basicResult \in BasicResults :
           BackupFetchDone(id, basicResult, PromptResult(id))

SpecBackupFill == Init /\ [][NextBackupFill]_vars

----------------------------------------------------------------------------
(* ProcessWindow: the list of top processes shown over the monitor.  The   *)
(* component stays mounted while it is closed and renders nothing then.    *)

MaxWindowProcs == 2
MaxWindowRequests == 3
MaxWindowInFlight == 2
MaxWindowErrors == 1

\* the interval of the window's timer, in milliseconds
WINDOW_POLL_INTERVAL == 2000

\* the ProcessInfo of the window: no GPU figure
WindowProcessInfo ==
    {[name |-> f.name, pid |-> pid, cpu_usage |-> f.cpu_usage,
      memory |-> f.memory] : f \in Profiles, pid \in Pids}

\* answers of get_top_processes to the window
WindowProcessLists ==
    UNION {{s \in [1..n -> WindowProcessInfo] :
              \A i, j \in 1..n : i # j => s[i].pid # s[j].pid} :
           n \in 0..MaxWindowProcs}

\* the columns the window can sort by
WindowColumns == {"cpu", "memory"}

\* the rows as rendered: a sorted copy, largest first
sortedProcesses == sort(winProcesses, winSortBy, "desc")

\* fetchProcesses up to its `await`
fetchProcesses ==
    /\ winLoading' = TRUE
    /\ winFetches' = winFetches + 1
    /\ winRequests' = winRequests + 1

\* isOpen turns true: the effect runs, fetches at once and sets the timer
OpenWindow ==
    /\ ~winOpen
    /\ winOpen' = TRUE
    /\ fetchProcesses
    /\ UNCHANGED <<cacheVars, monitorVars, pageVars, cpuVars, backupVars,
                   instanceVars, displayVars, winProcesses, winSortBy>>

\* onClose: isOpen turns false and the cleanup of the effect clears the timer
CloseWindow ==
    /\ winOpen
    /\ winOpen' = FALSE
    /\ UNCHANGED <<cacheVars, monitorVars, pageVars, cpuVars, backupVars,
                   instanceVars, displayVars, winProcesses, winLoading,
                   winSortBy, winFetches, winRequests>>

\* a timer that goes on ticking after the window has been closed
WindowTimerFire_uncleared ==
    /\ fetchProcesses
    /\ UNCHANGED <<cacheVars, monitorVars, pageVars, cpuVars, backupVars,
                   instanceVars, displayVars, winOpen, winProcesses,
                   winSortBy>>

\* a tick of the timer the effect set; the timer exists while isOpen is true
WindowTimerFire ==
    /\ winOpen
    /\ fetchProcesses
    /\ UNCHANGED <<cacheVars, monitorVars, pageVars, cpuVars, backupVars,
                   instanceVars, displayVars, winOpen, winProcesses,
                   winSortBy>>

\* a click on the refresh button, which is disabled while isLoading
RefreshClick ==
    /\ winOpen
    /\ ~winLoading
    /\ fetchProcesses
    /\ UNCHANGED <<cacheVars, monitorVars, pageVars, cpuVars, backupVars,
                   instanceVars, displayVars, winOpen, winProcesses,
                   winSortBy>>

\* invoke resolves: the rest of the try block, then the finally block
WindowFetchDone(result) ==
    /\ winFetches > 0
    /\ winProcesses' = result
    /\ winLoading' = FALSE
    /\ winFetches' = winFetches - 1
    /\ UNCHANGED <<cacheVars, monitorVars, pageVars, cpuVars, backupVars,
                   instanceVars, displayVars, winOpen, winSortBy,
                   winRequests>>

\* invoke rejects: the catch block logs, then the finally block
WindowFetchFail ==
    /\ winFetches > 0
    /\ logged' = logged + 1
    /\ winLoading' = FALSE
    /\ winFetches' = winFetches - 1
    /\ UNCHANGED <<cacheVars, pageVars, cpuVars, backupVars, instanceVars,
                   displayVars, mounted, inst, stats, extendedStats,
                   isLoading, chartData, polls, pollCount, winOpen,
                   winProcesses, winSortBy, winRequests>>

\* a click on one of the two sort buttons
setSortBy(column) ==
    /\ winOpen
    /\ winSortBy' = column
    /\ UNCHANGED <<cacheVars, monitorVars, pageVars, cpuVars, backupVars,
                   instanceVars, displayVars, winOpen, winProcesses,
                   winLoading, winFetches, winRequests>>

NextWindow ==
    \/ winRequests < MaxWindowRequests /\ winFetches < MaxWindowInFlight
         /\ OpenWindow
    \/ CloseWindow
    \/ winRequests < MaxWindowRequests /\ winFetches < MaxWindowInFlight
         /\ WindowTimerFire
    \/ winRequests < MaxWindowRequests /\ winFetches < MaxWindowInFlight
         /\ RefreshClick
    \/ \E result \in WindowProcessLists : WindowFetchDone(result)
    \/ logged < MaxWindowErrors /\ WindowFetchFail
    \/ \E column \in WindowColumns : setSortBy(column)

SpecWindow == Init /\ [][NextWindow]_vars

----------------------------------------------------------------------------
(* What the views compute for display: formatUptime and the width of a     *)
(* ProgressBar (App.tsx, and the same code in App_new.tsx).                *)

MaxDays == 2

\* uptimes in whole seconds: a number of days, then the hours, minutes and
\* seconds at which a field is about to wrap or has just wrapped
Uptimes ==
    {d * 86400 + h * 3600 + m * 60 + x :
        d \in 0..MaxDays, h \in {0, 1, 12, 23}, m \in {0, 1, 59},
        x \in {0, 1, 59}}

\* a breakdown whose hours count the whole uptime, days included
formatUptime_hoursOfAll(seconds_) ==
    [days    |-> seconds_ \div 86400,
     hours   |-> seconds_ \div 3600,
     minutes |-> (seconds_ % 3600) \div 60]

\* the three numbers formatUptime puts into `${days}d ${hours}h ${minutes}m`;
\* Math.floor of a quotient of whole numbers that are not negative is \div
formatUptime(seconds_) ==
    [days    |-> seconds_ \div 86400,
     hours   |-> (seconds_ % 86400) \div 3600,
     minutes |-> (seconds_ % 3600) \div 60]

\* the value props a ProgressBar is rendered with: percentages as the backend
\* may report them, also out of range
BarValues == {0 - 5, 0, 40, 100, 137}

\* the max props: the default, and a smaller one
BarMaxima == {50, 100}

\* Math.min of two numbers
Math_min(a, b) == IF a.num * b.den <= b.num * a.den THEN a ELSE b

\* const percentage = Math.min((value / max) * 100, 100)
ProgressBar(value, max) == Math_min(Number(value * 100, max), Number(100, 1))

\* a view renders an uptime
FormatUptime(seconds_) ==
    /\ seconds' = seconds_
    /\ uptime' = formatUptime(seconds_)
    /\ UNCHANGED <<cacheVars, monitorVars, pageVars, cpuVars, backupVars,
                   instanceVars, windowVars, barValue, barMax, percentage>>

\* a view renders a ProgressBar
RenderProgressBar(value, max) ==
    /\ barValue' = value
    /\ barMax' = max
    /\ percentage' = ProgressBar(value, max)
    /\ UNCHANGED <<cacheVars, monitorVars, pageVars, cpuVars, backupVars,
                   instanceVars, windowVars, seconds, uptime>>

NextDisplay ==
    \/ \E seconds_ \in Uptimes : FormatUptime(seconds_)
    \/ \E value \in BarValues : \E max \in BarMaxima :
         RenderProgressBar(value, max)

SpecDisplay == Init /\ [][NextDisplay]_vars

----------------------------------------------------------------------------
(* Vocabulary of the properties                                            *)

\* the series the cache holds for a key
Series(k) == heap[cache[k].chartData]

\* what getChartData(k) would hand back in the current state
Read(k) == LET res == getChartData(k) IN res.heap[res.ret]

\* the last call found an entry that was still fresh / already expired
LastFresh == last.had /\ last.age < CACHE_DURATION
LastStale == last.had /\ last.age >= CACHE_DURATION

----------------------------------------------------------------------------
FifoEviction ==
    [][\A k \in Keys :
         (AddChartData(k) /\ hit(k) /\ Len(Series(k)) = MAX_CHART_POINTS)
         => /\ Series(k)' = Append(Tail(Series(k)), Sample(seq[k] + 1))
            /\ heap'[ret'] = Series(k)']_vars

\* the second eviction in a row has happened
FifoWitness ==
    /\ last.op = "add" /\ LastFresh /\ last.len = MAX_CHART_POINTS
    /\ seq[last.key] = MAX_CHART_POINTS + 2
    /\ Series(last.key)[1] = Sample(3)
    /\ Series(last.key)[MAX_CHART_POINTS] = Sample(MAX_CHART_POINTS + 2)

\* C3: a key whose last addChartData lies more than CACHE_DURATION back
\* reads as the empty sequence, whatever it holds.
StaleReadEmpty ==
    \A k \in DOMAIN cache :
        now - cache[k].lastUpdate > CACHE_DURATION
        => /\ Read(k) = << >>
           /\ (last.op = "get" /\ last.key = k => heap[ret] = << >>)

\* getChartData has just been called on a non-empty series older than 30 min
StaleReadWitness ==
    /\ last.op = "get" /\ last.had /\ last.age > CACHE_DURATION
    /\ last.len >= 2
    /\ heap[ret] = << >>

\* C4: addChartData(key, p) on an absent or stale key returns and stores
\* exactly [p], and the key reads as [p] right afterwards.
ResetOnWrite ==
    (last.op = "add" /\ ~LastFresh)
    => LET p == Sample(seq[last.key])
       IN  /\ heap[ret] = <<p>>
           /\ last.key \in DOMAIN cache
           /\ Series(last.key) = <<p>>
           /\ Read(last.key) = <<p>>

\* an append has just replaced an expired series of several points
ResetOnWriteWitness ==
    /\ last.op = "add" /\ LastStale /\ last.len >= 2
    /\ Series(last.key) = <<Sample(seq[last.key])>>

\* C5: getChartData returns a sequence for every key in every state, and
\* the empty one when the key is absent or stale.
ReadNeverFails ==
    /\ \A k \in Keys :
         LET res == getChartData(k)
         IN  /\ res.ret \in DOMAIN res.heap
             /\ res.heap[res.ret] \in Seq({Sample(n) : n \in 1..seq[k]})
             /\ (k \notin DOMAIN cache => res.heap[res.ret] = << >>)
             /\ (k \in DOMAIN cache
                   /\ now - cache[k].lastUpdate >= CACHE_DURATION
                 => res.heap[res.ret] = << >>)
    /\ last.op = "get" => ret \in DOMAIN heap
    /\ (last.op = "get" /\ ~LastFresh) => heap[ret] = << >>

\* getChartData has just been called on a key that was written, then cleared
ReadNeverFailsWitness ==
    /\ last.op = "get" /\ ~last.had /\ seq[last.key] > 0
    /\ heap[ret] = << >>

\* C6: the sequence addChartData returns equals what getChartData on the
\* same key returns right afterwards.
AddReturnsCurrentSeries ==
    [][\A k \in Keys :
         (last.op = "add" /\ last.key = k /\ GetChartData(k))
         => heap'[ret'] = heap[ret]]_vars

\* a read right after the append that made the series two points long
AddReturnsWitness ==
    /\ last.op = "add" /\ LastFresh
    /\ Len(heap[ret]) >= 2
    /\ Read(last.key) = heap[ret]

\* C7: the contents of a sequence the caller already holds are not changed
\* by a later call.
ReturnedSequenceStable ==
    [][(ret # NoRef /\ ret \in DOMAIN heap') => heap'[ret] = heap[ret]]_vars

\* C8: clearCache(key) empties that key and leaves every other key alone,
\* for every key string.
ClearExactlyOne ==
    [][\A k \in Keys :
         ClearCache(k)
         => /\ k \notin DOMAIN cache'
            /\ \A k2 \in Keys \ {k} :
                 /\ (k2 \in DOMAIN cache') = (k2 \in DOMAIN cache)
                 /\ k2 \in DOMAIN cache
                    => /\ cache'[k2] = cache[k2]
                       /\ Series(k2)' = Series(k2)]_vars

\* C9: in every series the retained points are in the order of their
\* addChartData calls (the n-th call on a key passes Sample(n)).
NeverReorders ==
    \A k \in DOMAIN cache :
        \A i, j \in 1..Len(Series(k)) :
            i < j => Series(k)[i].cpu < Series(k)[j].cpu

\* a full series has been read after an eviction
NeverReordersWitness ==
    /\ last.op = "get" /\ LastFresh /\ last.len = MAX_CHART_POINTS
    /\ seq[last.key] > MAX_CHART_POINTS
    /\ Len(heap[ret]) = MAX_CHART_POINTS

\* C10: along the 'realtime' series the capture timestamps never decrease,
\* also when polls overlap and complete out of order.
IsoLeq(a, b) == DateParse(a) <= DateParse(b)

CaptureOrder ==
    "realtime" \in DOMAIN cache
    => \A i, j \in 1..Len(Series("realtime")) :
           i < j => IsoLeq(Series("realtime")[i].timestamp,
                           Series("realtime")[j].timestamp)

----------------------------------------------------------------------------
\* the poll that the step completes, if it completes one
Completed == (DOMAIN polls) \ (DOMAIN polls')

\* C11: appends of overlapping polls and of an old monitor instance are
\* serialized: each completed poll adds its point at the end of the series,
\* every point of a fresh series is kept unless capacity evicts it, and the
\* series never exceeds capacity.
NoLostUpdate ==
    [][\A id \in Completed :
         last'.op = "done"
         => LET old == IF hit("realtime") THEN Series("realtime") ELSE << >>
                new == Series("realtime")'
                p == new[Len(new)]
            IN  /\ Len(new) <= MAX_CHART_POINTS
                /\ Len(new) >= 1
                /\ new = slice(Append(old, p), 0 - MAX_CHART_POINTS)
                /\ p.timestamp = IF polls[id].ext.st = "ok"
                                 THEN polls[id].ext.timestamp
                                 ELSE toISOString(now)
                /\ p.cpu \in RawUsage]_vars

\* two overlapping polls have completed out of capture order and both
\* points are in the series
NoLostUpdateWitness ==
    /\ last.op = "done"
    /\ "realtime" \in DOMAIN cache
    /\ Len(Series("realtime")) = 2
    /\ DateParse(Series("realtime")[1].timestamp)
         > DateParse(Series("realtime")[2].timestamp)

\* C12: addChartData(k1, p) leaves the entry, the series and the read
\* result of every other key as they were.
DifferentKeysIndependent ==
    [][\A k1 \in Keys :
         AddChartData(k1)
         => \A k2 \in Keys \ {k1} :
              /\ (k2 \in DOMAIN cache') = (k2 \in DOMAIN cache)
              /\ Read(k2)' = Read(k2)
              /\ k2 \in DOMAIN cache
                 => /\ cache'[k2] = cache[k2]
                    /\ Series(k2)' = Series(k2)]_vars

\* appends to the two keys have been interleaved
DifferentKeysWitness ==
    /\ last.op = "add"
    /\ \A k \in Keys : k \in DOMAIN cache /\ seq[k] >= 2
    /\ \E k \in Keys \ {last.key} : Len(Series(k)) >= 2

\* C13: every point stored in a series has cpu and memory within [0,100],
\* whatever the queries report.
PercentClamped ==
    \A k \in DOMAIN cache :
        \A i \in 1..Len(Series(k)) :
            /\ Series(k)[i].cpu >= 0 /\ Series(k)[i].cpu <= 100
            /\ Series(k)[i].memory >= 0 /\ Series(k)[i].memory <= 100

\* C14: a poll whose query fails logs the error, leaves the snapshot, the
\* chart data and the series untouched, ends with the loading flag false
\* and leaves the timer running.
FailedPollSkipped ==
    [][\A id \in DOMAIN polls :
         Reject(id)
         => /\ logged' = logged + 1
            /\ stats' = stats
            /\ extendedStats' = extendedStats
            /\ chartData' = chartData
            /\ cache' = cache
            /\ heap' = heap
            /\ seq' = seq
            /\ (Live(id) => ~isLoading')
            /\ mounted' = mounted]_vars

\* a poll has failed after an earlier one had filled the snapshot
FailedPollWitness ==
    /\ last.op = "fail"
    /\ mounted /\ ~isLoading
    /\ logged = 1
    /\ stats.st = "ok"
    /\ "realtime" \in DOMAIN cache /\ Len(Series("realtime")) = 1

\* C15: an unmounted view starts no poll, and a poll that was in flight at
\* the unmount still completes and appends its point.
Cancellation ==
    [][/\ \A id \in (DOMAIN polls') \ (DOMAIN polls) :
            mounted' /\ polls'[id].inst = inst'
       /\ (~mounted /\ ~mounted') => pollCount' = pollCount
       /\ \A id \in Completed :
            (~mounted /\ last'.op = "done")
            => /\ "realtime" \in DOMAIN cache'
               /\ seq'["realtime"] = seq["realtime"] + 1
               /\ Len(Series("realtime")')
                    = (IF hit("realtime") THEN Len(Series("realtime")) ELSE 0)
                      + 1]_vars

\* a poll has completed and appended while the view was unmounted
CancellationWitness ==
    /\ last.op = "done"
    /\ ~mounted
    /\ polls = << >>
    /\ Len(Series("realtime")) >= 1

----------------------------------------------------------------------------
(* The process page                                                        *)

\* C16: under the CPU-descending sort the rows of the process page are in
\* descending order of cpu usage, and rows of equal cpu usage are in
\* ascending pid order, whatever order the processes were received in.
CpuDescendingPidAscending ==
    (pageMounted /\ sortBy = "cpu" /\ sortOrder = "desc")
        => LET shown == filteredAndSortedProcesses
           IN  \A i, j \in 1..Len(shown) :
                   i < j => \/ shown[i].cpu_usage > shown[j].cpu_usage
                            \/ /\ shown[i].cpu_usage = shown[j].cpu_usage
                               /\ shown[i].pid < shown[j].pid

\* the order of two rows by one column of the table
columnOrder(column, a, b) ==
    CASE column = "pid" -> a.pid - b.pid
      [] column = "cpu" -> a.cpu_usage - b.cpu_usage
      [] column = "gpu" -> a.gpu_usage - b.gpu_usage
      [] column = "memory" -> a.memory - b.memory
      [] column = "name" -> localeCompare(a.name, b.name)

\* a list of rows is in ascending or in descending order of the column
OrderedBy(column, list) ==
    \/ \A i, j \in 1..Len(list) :
           i < j => columnOrder(column, list[i], list[j]) <= 0
    \/ \A i, j \in 1..Len(list) :
           i < j => columnOrder(column, list[i], list[j]) >= 0

\* C20: for each of the columns name, PID, CPU and GPU there is a click on
\* a column header after which the rows are ordered by that column.
EveryColumnSortable ==
    pageMounted
        => \A column \in {"name", "pid", "cpu", "gpu"} :
               \E header, by \in Columns, order \in {"asc", "desc"} :
                   /\ ENABLED (/\ handleSort(header)
                               /\ sortBy' = by
                               /\ sortOrder' = order)
                   /\ OrderedBy(column, rows(processes, searchTerm, by, order))

----------------------------------------------------------------------------
(* The CPU reading                                                         *)

\* C17: the aggregate CPU usage is the average of the per-core values, not
\* their sum: for one core or more, each within [0,100], the aggregate
\* times the core count is the sum of the per-core values, and the
\* aggregate is within [0,100].
AggregateIsAverage ==
    Len(per_core_usage) >= 1
        => /\ cpu_percent.num * Len(per_core_usage)
                = sum(per_core_usage) * cpu_percent.den
           /\ 0 <= cpu_percent.num
           /\ cpu_percent.num <= 100 * cpu_percent.den

\* four cores at 100 give 100
AggregateWitness ==
    /\ per_core_usage = <<100, 100, 100, 100>>
    /\ cpu_percent = Number(100, 1)

----------------------------------------------------------------------------
(* The application of App_backup.tsx                                       *)

\* C18: missing temperature sensors are not a failure.  A poll of the
\* mounted backup monitor that completes logs nothing, shows the results
\* and appends its point; the temperature of the point is absent exactly
\* when the temperature list is empty, and is otherwise the average of the
\* readings.
MissingSensorsTolerated ==
    [][\A id \in DOMAIN backupPolls :
         \A basicResult \in BasicResults :
           \A extendedResult \in BackupExtendedResults :
             (BackupLive(id)
                /\ BackupFetchDone(id, basicResult, extendedResult))
             => LET appended == backupChartData'
                    p == appended[Len(appended)]
                    readings == extendedResult.temperatures
                IN  /\ logged' = logged
                    /\ ~backupLoading'
                    /\ backupExtendedStats' = extendedResult
                    /\ Len(appended) = Len(backupChartData) + 1
                    /\ SubSeq(appended, 1, Len(backupChartData))
                          = backupChartData
                    /\ (p.temperature = undefined) = (readings = << >>)
                    /\ readings # << >>
                         => /\ p.temperature.type = "number"
                            /\ p.temperature.num * Len(readings)
                                 = p.temperature.den
                                     * sum([i \in 1..Len(readings) |->
                                              readings[i].temperature])]_vars

\* a point without a temperature, then a point averaged over two sensors
MissingSensorsWitness ==
    /\ appRunning
    /\ ~backupLoading
    /\ logged = 0
    /\ Len(backupChartData) = 2
    /\ backupChartData[1].temperature = undefined
    /\ backupChartData[2].temperature = Number(95, 2)
    /\ backupExtendedStats.temperatures
         = <<[temperature |-> 40], [temperature |-> 55]>>

\* C19: with nothing saved the application starts in the dark theme; while
\* it runs, after every start and every toggle, the saved 'darkMode' value
\* is the current theme; and it starts in the theme that was in effect
\* when it was last closed.
ThemeRoundTrip ==
    [][/\ appRunning'
            => /\ darkModeItem' \in {"true", "false"}
               /\ (darkModeItem' = "true") = isDarkMode'
               /\ darkClass' = isDarkMode'
       /\ toggleTheme => isDarkMode' = ~isDarkMode
       /\ AppStart
            => /\ (darkModeItem = NoItem) = (themeAtClose = "none")
               /\ isDarkMode' = IF themeAtClose = "none" THEN TRUE
                                 ELSE themeAtClose = "dark"]_vars

\* started again in the light theme it was closed in
ThemeRoundTripWitness ==
    /\ appRunning
    /\ ~isDarkMode
    /\ themeAtClose = "light"
    /\ darkModeItem = "false"
    /\ ~darkClass

----------------------------------------------------------------------------
(* The realtime monitor, continued                                         *)

----------------------------------------------------------------------------
(* The cache, continued                                                    *)

\* C23: staleness is measured from the last append only.  An append stamps
\* its key with the time of the call and nothing else changes the stamp of
\* a key that stays in the cache; a key reads as non-empty exactly when it
\* is in the cache and its stamp is strictly less than CACHE_DURATION old;
\* an append to a key that reads as non-empty keeps every point it held
\* (up to the capacity), however old.
StalenessFromLastAppend ==
    [][\A k \in Keys :
         /\ AddChartData(k)
              => /\ cache'[k].lastUpdate = now
                 /\ Read(k) # << >>
                      => Series(k)' = slice(Append(Read(k), Sample(seq[k] + 1)),
                                            0 - MAX_CHART_POINTS)
         /\ (~AddChartData(k) /\ k \in DOMAIN cache')
              => /\ k \in DOMAIN cache
                 /\ cache'[k].lastUpdate = cache[k].lastUpdate
         /\ (Read(k)' # << >>)
              = (/\ k \in DOMAIN cache'
                 /\ now' - cache'[k].lastUpdate < CACHE_DURATION)]_vars

\* a read exactly 30 minutes after the last append found the series expired
StalenessWitness ==
    /\ last.op = "get" /\ last.had /\ last.age = CACHE_DURATION
    /\ last.len >= 2
    /\ heap[ret] = << >>
    /\ Len(Series(last.key)) >= 2

\* C24: getChartData is a pure read.  It leaves the map, every stamp and
\* every series as they were: it creates no entry for an absent key and
\* removes no stale one, so cacheSize still counts stale keys.
PureRead ==
    [][\A k \in Keys :
         GetChartData(k)
         => /\ cache' = cache
            /\ DOMAIN cache' = DOMAIN cache
            /\ cacheSize' = cacheSize
            /\ \A k2 \in DOMAIN cache :
                 /\ cache'[k2].lastUpdate = cache[k2].lastUpdate
                 /\ Series(k2)' = Series(k2)]_vars

\* a stale key and an absent key have been read, and the stale one still
\* counts
PureReadWitness ==
    /\ last.op = "get" /\ ~last.had
    /\ cacheSize = 1
    /\ \E k \in DOMAIN cache :
         /\ now - cache[k].lastUpdate >= CACHE_DURATION
         /\ Len(Series(k)) >= 1
    /\ heap[ret] = << >>

----------------------------------------------------------------------------
(* The process page, continued                                             *)

\* C27: the process page starts sorted by (cpu, desc); a click on the
\* header of the active column keeps the column and flips the order; a
\* click on the header of another column selects it with order desc,
\* whatever the order was; no other step of the mounted page changes the
\* sort state.
SortStateMachine ==
    [][/\ PageMount => sortBy' = "cpu" /\ sortOrder' = "desc"
       /\ \A column \in Columns :
            handleSort(column)
            => /\ sortBy' = column
               /\ sortBy = column
                    => /\ sortOrder' # sortOrder
                       /\ sortOrder' \in {"asc", "desc"}
               /\ sortBy # column => sortOrder' = "desc"
       /\ (pageMounted /\ pageMounted'
             /\ ~(\E column \in Columns : handleSort(column)))
            => sortBy' = sortBy /\ sortOrder' = sortOrder]_vars

\* a second click on the name header has turned the order to asc
SortStateWitness ==
    /\ pageMounted
    /\ sortBy = "name"
    /\ sortOrder = "asc"
    /\ Len(processes) >= 2
    /\ filteredAndSortedProcesses # processes

----------------------------------------------------------------------------
(* The backup monitor, continued                                           *)

\* polls of the backup monitor answered so far, while none has failed and
\* the view has stayed mounted
Answered == backupPollCount - BackupInFlight

\* C30: the history the backup monitor keeps never exceeds BACKUP_HISTORY
\* points; after n answered polls it holds min(n, BACKUP_HISTORY) points;
\* and every answered poll leaves the last BACKUP_HISTORY points of the
\* history it found followed by its own point, so that the history is the
\* last min(n, BACKUP_HISTORY) points in the order the polls completed,
\* also when two polls overlap and complete one right after the other.
LocalHistory ==
    [][/\ Len(backupChartData') <= BACKUP_HISTORY
       /\ Len(backupChartData')
            = IF Answered' < BACKUP_HISTORY THEN Answered'
              ELSE BACKUP_HISTORY
       /\ \A id \in DOMAIN backupPolls :
            \A basicResult \in BasicResults :
              BackupFetchDone(id, basicResult, PromptResult(id))
              => LET all == Append(backupChartData,
                                   backupDataPoint(PromptResult(id)))
                     kept == Len(backupChartData')
                 IN  /\ backupChartData'[kept].timestamp
                          = toISOString((id - 1) * BACKUP_POLL_INTERVAL)
                     /\ \A i \in 1..kept :
                          backupChartData'[i] = all[Len(all) - kept + i]]_vars

\* the history is full and has lost its two oldest points; the last two
\* polls overlapped and the later one was answered first
LocalHistoryWitness ==
    /\ Len(backupChartData) = BACKUP_HISTORY
    /\ Answered = BACKUP_HISTORY + 2
    /\ backupChartData[BACKUP_HISTORY - 1].timestamp
         = toISOString((BACKUP_HISTORY + 1) * BACKUP_POLL_INTERVAL)
    /\ backupChartData[BACKUP_HISTORY].timestamp
         = toISOString(BACKUP_HISTORY * BACKUP_POLL_INTERVAL)
    /\ backupChartData[1].timestamp
         = toISOString(2 * BACKUP_POLL_INTERVAL)

----------------------------------------------------------------------------
(* The process window                                                      *)

\* C28: the loading flag of the process window is true exactly when at
\* least one of its fetches is in flight, also when a timer tick or the
\* refresh button starts a fetch before the previous one has finished.
LoadingWhileInFlight == winLoading = (winFetches > 0)

\* C29: the process window polls only while it is open: a step that leaves
\* it closed starts no request, opening it starts exactly one request at
\* once, every timer tick happens while it is open and starts exactly one
\* request, and closing it starts none, so that no request is started from
\* the moment it closes until it is reopened.
PollsOnlyWhileOpen ==
    [][/\ (~winOpen /\ ~winOpen') => winRequests' = winRequests
       /\ OpenWindow => winRequests' = winRequests + 1
       /\ WindowTimerFire => winOpen /\ winRequests' = winRequests + 1
       /\ CloseWindow => winRequests' = winRequests
       /\ winRequests' \in {winRequests, winRequests + 1}]_vars

\* the window has been opened, has polled twice more, and is closed again
\* with the answers in and a list on display
PollsOnlyWhileOpenWitness ==
    /\ ~winOpen
    /\ winRequests = 3
    /\ winFetches = 0
    /\ Len(winProcesses) = 2
    /\ sortedProcesses # winProcesses

----------------------------------------------------------------------------
(* What the views compute for display                                      *)

\* C25: for every uptime of s >= 0 whole seconds formatUptime yields days
\* d, hours h and minutes m with 0 <= h <= 23, 0 <= m <= 59 and
\* d*86400 + h*3600 + m*60 <= s < d*86400 + h*3600 + m*60 + 60.
UptimeBreakdown ==
    LET shown == uptime.days * 86400 + uptime.hours * 3600
                   + uptime.minutes * 60
    IN  /\ uptime.hours >= 0 /\ uptime.hours <= 23
        /\ uptime.minutes >= 0 /\ uptime.minutes <= 59
        /\ shown <= seconds
        /\ seconds < shown + 60

\* two days less one second: every field is at its largest
UptimeBreakdownWitness ==
    /\ seconds = 2 * 86400 - 1
    /\ uptime = [days |-> 1, hours |-> 23, minutes |-> 59]

\* C26: the width percentage a ProgressBar computes is within [0,100] for
\* every value it is given, also above max and below zero, and for
\* 0 <= value <= max it is value / max * 100.
PercentageClamped ==
    /\ percentage.num >= 0
    /\ percentage.num <= 100 * percentage.den
    /\ (barValue >= 0 /\ barValue <= barMax)
         => percentage = Number(barValue * 100, barMax)

----------------------------------------------------------------------------
(* The one DataCache                                                       *)

\* C21: every call of DataCache.getInstance() returns the same instance:
\* at most one DataCache is ever constructed, a call returns
\* DataCache.instance, which never changes once set, and dataCache, once
\* the module is evaluated, is that instance for good, so that every call
\* made through dataCache reads and writes the map of the one object.
SingleInstance ==
    [][/\ constructed' <= 1
       /\ instance # NoInstance => instance' = instance
       /\ GetInstanceCall
            => /\ got' = instance'
               /\ got # NoInstance => got' = got
               /\ dataCache # NoInstance => got' = dataCache
       /\ ModuleLoad
            => /\ dataCache' = instance'
               /\ got # NoInstance => dataCache' = got
       /\ dataCache # NoInstance => dataCache' = dataCache
       /\ cache' # cache => dataCache = instance /\ dataCache # NoInstance]_vars

\* getInstance has been called again besides the module's own call, and
\* the views have written two points through dataCache
SingleInstanceWitness ==
    /\ constructed = 1
    /\ dataCache = 1
    /\ got = dataCache
    /\ "realtime" \in DOMAIN cache
    /\ Len(Series("realtime")) = 2
====
